---- MODULE Spec2Model ----
(***************************************************************************)
(* ST7701 panel bring-up over a serial command transport (bit-banged or    *)
(* hardware SPI), followed by DMA pixel streaming from a ring buffer.      *)
(*                                                                         *)
(* Sequential code is modelled by its operation sequence: every function   *)
(* of src/display/st7701.rs is an operator that yields, in program order,  *)
(* the pin writes, delays, bus transactions and call/return points that    *)
(* the function executes.  One action executes one operation.  Time is     *)
(* counted in nanoseconds; a pin write takes no time (the least the        *)
(* hardware allows), a delay takes exactly the time asked for.             *)
(***************************************************************************)
EXTENDS Integers, Sequences, FiniteSets, TLC

VARIABLES
    mode,           \* "main": the program of main.rs; "test": a transport call scenario
    transport,      \* "manual" (ManualSpi) or "hw" (Spi)
    calls,          \* test scenario: the write calls made, <<fn, arg>> each
    wrapped,        \* test scenario: the calls are made inside one while_cs
    mainPc,         \* position in main
    ip,             \* index of the next operation of the running program
    callStack,      \* active calls, innermost last
    result,         \* "none" while running, "ok", or the error returned
    cs, scl, sda, rst,   \* pin levels
    sdaOut,         \* the data pin is configured as an output
    now,            \* elapsed time, ns
    edges,          \* data-line levels sampled at the clock's rising edges of the current write_byte
    trace,          \* chip-select writes, delays and bytes of the current write call
    csRisesSinceOp, \* cs.set_high() calls since the last opcode byte began
    rstLog,         \* reset-line writes so far, <<level, time>> each
    lastWrite,      \* the last write call that returned: [fn, arg, t]
    nWrites,        \* write calls issued so far
    bytesDone,      \* write_byte calls returned so far
    injected,       \* the failure the transport reported: [k, e, t], k the write's position
    wr, rd, used,   \* ring buffer: write cursor, read cursor, unconsumed bytes
    fresh,          \* ring buffer: the cells holding an unconsumed byte
    overwrote,      \* an unconsumed byte has been overwritten
    lastPush,       \* the last push: bytes offered (data, n), accepted (k), and before
                    \* it the free space, the write cursor (at) and its wraps
                    \* it (free), position in the pixel of its first accepted byte (pos)
    wraps,          \* times the write cursor has wrapped past the capacity
    accPos,         \* bytes accepted so far, modulo the pixel length
    txns,           \* words handed to half_duplex_write so far, in order
    lastSclEdge     \* time of the last clock transition of the current write_byte, -1 if none

vars == <<mode, transport, calls, wrapped, mainPc, ip, callStack, result,
          cs, scl, sda, rst, sdaOut, now, edges, trace, csRisesSinceOp,
          rstLog, lastWrite, nWrites, bytesDone, injected,
          wr, rd, used, fresh, overwrote, lastPush, wraps, accPos,
          txns, lastSclEdge>>

progVars  == <<mode, transport, calls, wrapped>>
ringVars  == <<wr, rd, used, fresh, overwrote, lastPush, wraps, accPos>>
ghostVars == <<edges, trace, csRisesSinceOp, rstLog, lastWrite, nWrites, bytesDone, injected,
               txns, lastSclEdge>>
pinVars   == <<cs, scl, sda, rst, sdaOut>>

----------------------------------------------------------------------------
(* Bounds of the model *)

\* ring-buffer capacity in bytes (100_000 in main.rs)
Capacity == 6
\* pixels in the steady-state chunk (480 * 16 bytes, 2 bytes each, in main.rs)
ChunkPixels == 2
\* longest write_data argument of a test scenario
MaxData == 2
\* wraps of the write cursor that are counted
MaxWraps == 2
\* the largest push of the ring-buffer scenarios exceeds the capacity by this
MaxOver == 2

(* Program constants *)
MSB_MASK == 128
U8_BITS == 8
PixelLen == 2
COLOR == 63488
INTER_BIT_NS == 100

\* the steady-state chunk, bytes
ChunkLen == ChunkPixels * PixelLen

Ms(n) == n * 1000000

Transports == {"manual", "hw"}
\* esp_hal::spi::Error values the peripheral may report
Errors == {"DmaError", "FifoSizeExeeded"}

----------------------------------------------------------------------------
(* Operations *)

Pin(p, l)   == [op |-> "pin", a |-> p, b |-> l]
SdaOutput   == [op |-> "sda_out", a |-> 0, b |-> 0]
Dly(ns)     == [op |-> "delay", a |-> ns, b |-> 0]
Call(fn, x) == [op |-> "call", a |-> fn, b |-> x]
Ret(fn)     == [op |-> "ret", a |-> fn, b |-> 0]
Txn(w)      == [op |-> "txn", a |-> w, b |-> 0]

serFlagInverted(is_command, byte) ==
    ((byte * 128) % 65536) + ((IF is_command THEN 1 ELSE 0) * 32768)
serShiftByte(is_command, byte) ==
    ((byte * 256) % 65536) + ((IF is_command THEN 0 ELSE 1) * 32768)
\* ser: 1-bit C/D followed by 8-bit data, in a u16
ser(is_command, byte) ==
    LET first_bit == (IF is_command THEN 0 ELSE 1) * 32768
        shifted   == (byte * 128) % 65536
    IN  shifted + first_bit   \* bit 15 of shifted is 0: | is +

RECURSIVE BitLoop(_, _)
BitLoopNoShift(data, n) ==
    IF n = 0 THEN <<>>
    ELSE <<Dly(100), Pin("scl", 0),
           Pin("sda", IF (data \div MSB_MASK) % 2 = 1 THEN 1 ELSE 0),
           Pin("scl", 1)>> \o BitLoop(data, n - 1)
\* the body of `for _ in 0..u8::BITS`, n iterations left
BitLoop(data, n) ==
    IF n = 0 THEN <<>>
    ELSE <<Dly(100), Pin("scl", 0),
           Pin("sda", IF (data \div MSB_MASK) % 2 = 1 THEN 1 ELSE 0),
           Pin("scl", 1)>> \o BitLoop((data * 2) % 256, n - 1)

ManualWriteByteSdaFirst(is_command, byte) ==
    <<Call("write_byte", <<is_command, byte>>),
      SdaOutput,
      Pin("sda", IF is_command THEN 0 ELSE 1),
      Pin("scl", 0),
      Pin("scl", 1)>>
    \o BitLoop(byte, U8_BITS)
    \o <<Dly(100), Pin("scl", 1), Ret("write_byte")>>
\* ManualSpi::write_byte
ManualWriteByte(is_command, byte) ==
    <<Call("write_byte", <<is_command, byte>>),
      SdaOutput,
      Pin("scl", 0),
      Pin("sda", IF is_command THEN 0 ELSE 1),
      Pin("scl", 1)>>
    \o BitLoop(byte, U8_BITS)
    \o <<Dly(100), Pin("scl", 1), Ret("write_byte")>>

\* Spi::write_byte
HwWriteByte(is_command, byte) ==
    <<Call("write_byte", <<is_command, byte>>),
      Txn(ser(is_command, byte)),
      Ret("write_byte")>>

WriteByte(t, is_command, byte) ==
    IF t = "manual" THEN ManualWriteByte(is_command, byte)
    ELSE HwWriteByte(is_command, byte)

ManualWhileCsNoRelease(body) ==
    <<Call("while_cs", 0), Pin("cs", 0), Dly(Ms(1))>>
    \o body
    \o <<Dly(Ms(1)), Ret("while_cs")>>
ManualWhileCsNoGuard(body) ==
    <<Call("while_cs", 0), Pin("cs", 0)>>
    \o body
    \o <<Pin("cs", 1), Ret("while_cs")>>
\* ManualSpi::while_cs
ManualWhileCs(body) ==
    <<Call("while_cs", 0), Pin("cs", 0), Dly(Ms(1))>>
    \o body
    \o <<Dly(Ms(1)), Pin("cs", 1), Ret("while_cs")>>

\* SpiProvider::while_cs, the default
DefaultWhileCs(body) ==
    <<Call("while_cs", 0)>> \o body \o <<Ret("while_cs")>>

WhileCs(t, body) ==
    IF t = "manual" THEN ManualWhileCs(body) ELSE DefaultWhileCs(body)

RECURSIVE EachByte(_, _)
\* data.iter().try_for_each(|byte| s.write_byte(false, *byte))
EachByte(t, data) ==
    IF data = <<>> THEN <<>>
    ELSE WriteByte(t, FALSE, Head(data)) \o EachByte(t, Tail(data))

RECURSIVE HwEachByte(_)
HwEachByteResend(data) ==
    IF data = <<>> THEN <<>>
    ELSE <<Txn(ser(FALSE, Head(data))), Txn(ser(FALSE, Head(data)))>>
         \o HwEachByte(Tail(data))
\* for byte in data { self.half_duplex_write(.., ser(false, *byte), ..)?; }
HwEachByte(data) ==
    IF data = <<>> THEN <<>>
    ELSE <<Txn(ser(FALSE, Head(data)))>> \o HwEachByte(Tail(data))

\* SpiProvider::write_command, and its override for Spi
WriteCommand(t, command) ==
    <<Call("write_command", command)>>
    \o (IF t = "manual" THEN WhileCs(t, WriteByte(t, TRUE, command))
        ELSE <<Txn(ser(TRUE, command))>>)
    \o <<Ret("write_command")>>

\* SpiProvider::write_data, and its override for Spi
WriteData(t, data) ==
    <<Call("write_data", data)>>
    \o (IF t = "manual" THEN WhileCs(t, EachByte(t, data))
        ELSE HwEachByte(data))
    \o <<Ret("write_data")>>

ResetNoDwell ==
    <<Call("reset", 0),
      Pin("rst", 1), Dly(Ms(100)),
      Pin("rst", 0),
      Pin("rst", 1), Dly(Ms(100)),
      Ret("reset")>>
\* St7701::reset
Reset ==
    <<Call("reset", 0),
      Pin("rst", 1), Dly(Ms(100)),
      Pin("rst", 0), Dly(Ms(100)),
      Pin("rst", 1), Dly(Ms(100)),
      Ret("reset")>>

----------------------------------------------------------------------------
(* St7701::init *)

C(command) == <<"write_command", command>>
D(data)    == <<"write_data", data>>
W(ms)      == <<"delay", ms>>

\* the statements of init after reset, in program order
InitSteps == <<
    C(\HFF), D(<<\H77, \H01, \H00, \H00, \H10>>),
    C(\HC0), D(<<\H3B, \H00>>),
    C(\HC1), D(<<\H0B, \H02>>),
    C(\HC2), D(<<\H00, \H02>>),
    C(\HCC), D(<<\H10>>),
    C(\HCD), D(<<\H08>>),
    C(\HB0),
    D(<<\H02, \H13, \H1B, \H0D, \H10, \H05, \H08, \H07, \H07, \H24, \H04, \H11, \H0E, \H2C, \H33, \H1D>>),
    C(\HB1),
    D(<<\H05, \H13, \H1B, \H0D, \H11, \H05, \H08, \H07, \H07, \H24, \H04, \H11, \H0E, \H2C, \H33, \H1D>>),
    C(\HFF), D(<<\H77, \H01, \H00, \H00, \H11>>),
    C(\HB0), D(<<\H5D>>),
    C(\HB1), D(<<\H43>>),
    C(\HB2), D(<<\H81>>),
    C(\HB3), D(<<\H80>>),
    C(\HB5), D(<<\H43>>),
    C(\HB7), D(<<\H85>>),
    C(\HB8), D(<<\H20>>),
    C(\HC1), D(<<\H78>>),
    C(\HC2), D(<<\H78>>),
    C(\HD0), D(<<\H88>>),
    C(\HE0), D(<<\H00, \H00, \H02>>),
    C(\HE1), D(<<\H03, \HA0, \H00, \H00, \H04, \HA0, \H00, \H00, \H00, \H20, \H20>>),
    C(\HE2),
    D(<<\H00, \H00, \H00, \H00, \H00, \H00, \H00, \H00, \H00, \H00, \H00, \H00, \H00>>),
    C(\HE3), D(<<\H00, \H00, \H11, \H00>>),
    C(\HE4), D(<<\H22, \H00>>),
    C(\HE5),
    D(<<\H05, \HEC, \HA0, \HA0, \H07, \HEE, \HA0, \HA0, \H00, \H00, \H00, \H00, \H00, \H00, \H00, \H00>>),
    C(\HE6), D(<<\H00, \H00, \H11, \H00>>),
    C(\HE7), D(<<\H22, \H00>>),
    C(\HE8),
    D(<<\H06, \HED, \HA0, \HA0, \H08, \HEF, \HA0, \HA0, \H00, \H00, \H00, \H00, \H00, \H00, \H00, \H00>>),
    C(\HEB), D(<<\H00, \H00, \H40, \H40, \H00, \H00, \H00>>),
    C(\HED),
    D(<<\HFF, \HFF, \HFF, \HBA, \H0A, \HBF, \H45, \HFF, \HFF, \H54, \HFB, \HA0, \HAB, \HFF, \HFF, \HFF>>),
    C(\HEF), D(<<\H10, \H0D, \H04, \H08, \H3F, \H1F>>),
    C(\HFF), D(<<\H77, \H01, \H00, \H00, \H13>>),
    C(\HEF), D(<<\H08>>),
    C(\HFF), D(<<\H77, \H01, \H00, \H00, \H00>>),
    C(\H36), D(<<\H08>>),
    C(\H3A), D(<<\H60>>),
    C(\H11), W(100),
    C(\H29), W(50)
>>

StatementDelayMicros(t, st) ==
    IF st[1] = "write_command" THEN WriteCommand(t, st[2])
    ELSE IF st[1] = "write_data" THEN WriteData(t, st[2])
    ELSE <<Dly(st[2] * 1000)>>

\* one statement of init (or of a test closure): a transport write or a delay
Statement(t, st) ==
    IF st[1] = "write_command" THEN WriteCommand(t, st[2])
    ELSE IF st[1] = "write_data" THEN WriteData(t, st[2])
    ELSE <<Dly(Ms(st[2]))>>

RECURSIVE Statements(_, _)
Statements(t, sts) ==
    IF sts = <<>> THEN <<>>
    ELSE Statement(t, Head(sts)) \o Statements(t, Tail(sts))

\* St7701::init
InitOps(t) ==
    <<Call("init", 0)>> \o Reset \o Statements(t, InitSteps) \o <<Ret("init")>>

MainOps == [t \in Transports |-> InitOps(t)]

\* a test closure: the calls, inside one while_cs when wrapped
TestOps(t, cl, w) ==
    <<Call("test", 0)>>
    \o (IF w THEN WhileCs(t, Statements(t, cl)) ELSE Statements(t, cl))
    \o <<Ret("test")>>


\* the write calls a test closure may make
Byte == 0..255
TestBytes == {\H00, \H11, \HAA}

DataArgs == UNION {[1..n -> TestBytes] : n \in 0..MaxData}

\* every byte as a single command and as a single data byte
ByteScenarios == {<<C(b)>> : b \in Byte} \cup {<<D(<<b>>)>> : b \in Byte}
\* a data write alone, and a command followed by its data
SmallScenarios ==
    {<<D(d)>> : d \in DataArgs}
    \cup {<<C(c), D(d)>> : c \in TestBytes, d \in DataArgs}
Scenarios == ByteScenarios \cup SmallScenarios

TestPrograms ==
    [t \in Transports, w \in BOOLEAN, cl \in Scenarios |-> TestOps(t, cl, w)]

\* the operations of the running program
Ops == IF mode = "main" THEN MainOps[transport]
       ELSE TestPrograms[transport, wrapped, calls]

\* the transport writes of a statement list
IsWrite(st) == st[1] \in {"write_command", "write_data"}
Writes(sts) == SelectSeq(sts, IsWrite)

----------------------------------------------------------------------------
(* The ring buffer (DmaTxStreamBuf) *)

Min(a, b) == IF a < b THEN a ELSE b

Free == Capacity - used

\* the cells a push of k bytes writes, from the write cursor on
Written(k) == {(wr + i) % Capacity : i \in 0..(k - 1)}

AcceptedUnchecked(n) == Min(n, Capacity)
\* push(bytes) -> count accepted: as many leading bytes as fit in the free space
Accepted(n) == Min(n, Free)

AdvancePastEnd(pos, k) == (pos + k) % (Capacity + 1)
\* the write cursor after k more bytes: it wraps to 0 at the capacity
Advance(pos, k) == (pos + k) % Capacity

Push(data) ==
    LET n == Len(data)
        k == Accepted(n)
    IN
    /\ wr' = Advance(wr, k)
    /\ wraps' = IF wr + k >= Capacity THEN Min(wraps + 1, MaxWraps) ELSE wraps
    /\ used' = used + k
    /\ fresh' = fresh \cup Written(k)
    /\ overwrote' = (overwrote \/ Written(k) \cap fresh # {})
    /\ lastPush' = [n |-> n, k |-> k, free |-> Free, data |-> data, pos |-> accPos,
                    at |-> wr, wraps |-> wraps]
    /\ accPos' = (accPos + k) % PixelLen
    /\ rd' = rd

\* the DMA engine consumes the byte at the read cursor
Consume ==
    /\ used > 0
    /\ rd' = (rd + 1) % Capacity
    /\ used' = used - 1
    /\ fresh' = fresh \ {rd}
    /\ UNCHANGED <<wr, overwrote, lastPush, wraps, accPos>>

----------------------------------------------------------------------------
(* Execution of the running program, one operation per step *)

WriteFns == {"write_command", "write_data"}

Running == mainPc \in {"init", "test"} /\ ip <= Len(Ops)
Cur == Ops[ip]
Top == callStack[Len(callStack)]
InFn(fn) == \E i \in DOMAIN callStack : callStack[i].fn = fn
InWrite == \E i \in DOMAIN callStack : callStack[i].fn \in WriteFns

\* a frame on the wire: the control bit, then the byte
Frame(is_command, byte) == (IF is_command THEN 0 ELSE 256) + byte

\* a pin is written: set_low / set_high
StepPin ==
    /\ Running /\ Cur.op = "pin"
    /\ cs'  = IF Cur.a = "cs"  THEN Cur.b ELSE cs
    /\ scl' = IF Cur.a = "scl" THEN Cur.b ELSE scl
    /\ sda' = IF Cur.a = "sda" THEN Cur.b ELSE sda
    /\ rst' = IF Cur.a = "rst" THEN Cur.b ELSE rst
    /\ edges' = IF Cur.a = "scl" /\ scl = 0 /\ Cur.b = 1
                THEN Append(edges, sda) ELSE edges
    /\ trace' = IF Cur.a = "cs" /\ InWrite
                THEN Append(trace, <<"cs", Cur.b>>) ELSE trace
    /\ csRisesSinceOp' = IF Cur.a = "cs" /\ cs = 0 /\ Cur.b = 1
                         THEN csRisesSinceOp + 1 ELSE csRisesSinceOp
    /\ rstLog' = IF Cur.a = "rst"
                 THEN Append(rstLog, <<Cur.b, now>>) ELSE rstLog
    /\ lastSclEdge' = IF Cur.a = "scl" /\ Cur.b # scl /\ InFn("write_byte")
                      THEN now ELSE lastSclEdge
    /\ ip' = ip + 1
    /\ UNCHANGED <<progVars, ringVars, mainPc, callStack, result, sdaOut, now,
                   lastWrite, nWrites, bytesDone, injected, txns>>

\* sda.set_as_output()
StepSdaOut ==
    /\ Running /\ Cur.op = "sda_out"
    /\ sdaOut' = TRUE
    /\ ip' = ip + 1
    /\ UNCHANGED <<progVars, ringVars, ghostVars, mainPc, callStack, result,
                   cs, scl, sda, rst, now>>

\* a busy-wait delay
StepDelay ==
    /\ Running /\ Cur.op = "delay"
    /\ now' = now + Cur.a
    /\ trace' = IF InWrite /\ ~InFn("write_byte")
                THEN Append(trace, <<"delay", Cur.a>>) ELSE trace
    /\ ip' = ip + 1
    /\ UNCHANGED <<progVars, ringVars, pinVars, mainPc, callStack, result,
                   edges, csRisesSinceOp, rstLog, lastWrite, nWrites, bytesDone,
                   injected, txns, lastSclEdge>>

\* a function is entered
StepCall ==
    /\ Running /\ Cur.op = "call"
    /\ callStack' = Append(callStack, [fn |-> Cur.a, arg |-> Cur.b])
    /\ edges' = IF Cur.a = "write_byte" THEN <<>> ELSE edges
    /\ csRisesSinceOp' = IF Cur.a = "write_byte" /\ Cur.b[1]
                         THEN 0 ELSE csRisesSinceOp
    /\ trace' = IF Cur.a \in WriteFns THEN <<>> ELSE trace
    /\ nWrites' = IF Cur.a \in WriteFns THEN nWrites + 1 ELSE nWrites
    /\ lastSclEdge' = IF Cur.a = "write_byte" THEN -1 ELSE lastSclEdge
    /\ ip' = ip + 1
    /\ UNCHANGED <<progVars, ringVars, pinVars, mainPc, result, now,
                   rstLog, lastWrite, bytesDone, injected, txns>>

\* a function returns Ok (or, for reset and while_cs, returns)
StepRet ==
    /\ Running /\ Cur.op = "ret"
    /\ callStack' = SubSeq(callStack, 1, Len(callStack) - 1)
    /\ trace' = IF Cur.a = "write_byte"
                THEN Append(trace, <<"byte", Frame(Top.arg[1], Top.arg[2])>>)
                ELSE trace
    /\ bytesDone' = IF Cur.a = "write_byte" THEN bytesDone + 1 ELSE bytesDone
    /\ lastWrite' = IF Cur.a \in WriteFns
                    THEN [fn |-> Top.fn, arg |-> Top.arg, t |-> now]
                    ELSE lastWrite
    /\ result' = IF Len(callStack) = 1 THEN "ok" ELSE result
    /\ ip' = ip + 1
    /\ UNCHANGED <<progVars, ringVars, pinVars, mainPc, now, edges,
                   csRisesSinceOp, rstLog, nWrites, injected, txns, lastSclEdge>>

StepTxnErrorDropped ==
    /\ Running /\ Cur.op = "txn"
    /\ \E r \in {"ok"} \cup Errors :
        IF r = "ok"
        THEN /\ ip' = ip + 1
             /\ UNCHANGED <<callStack, result, injected>>
        ELSE /\ ip' = ip + 1
             /\ injected' = [k |-> nWrites, e |-> r, t |-> now]
             /\ UNCHANGED <<callStack, result>>
    /\ txns' = Append(txns, Cur.a)
    /\ UNCHANGED <<progVars, ringVars, pinVars, mainPc, now, edges, trace,
                   csRisesSinceOp, rstLog, lastWrite, nWrites, bytesDone, lastSclEdge>>

\* half_duplex_write: the transaction succeeds, or the peripheral reports an
\* error, which every caller up to init (or the test closure) returns with `?`
StepTxn ==
    /\ Running /\ Cur.op = "txn"
    /\ \E r \in {"ok"} \cup Errors :
        IF r = "ok"
        THEN /\ ip' = ip + 1
             /\ UNCHANGED <<callStack, result, injected>>
        ELSE /\ ip' = Len(Ops) + 1
             /\ callStack' = <<>>
             /\ result' = r
             /\ injected' = [k |-> nWrites, e |-> r, t |-> now]
    /\ txns' = Append(txns, Cur.a)
    /\ UNCHANGED <<progVars, ringVars, pinVars, mainPc, now, edges, trace,
                   csRisesSinceOp, rstLog, lastWrite, nWrites, bytesDone, lastSclEdge>>

Exec == StepPin \/ StepSdaOut \/ StepDelay \/ StepCall \/ StepRet \/ StepTxn

----------------------------------------------------------------------------
(* main *)

\* delay.delay_millis(50); st7701.init(&mut delay) is entered
Boot ==
    /\ mainPc = "boot"
    /\ now' = now + Ms(50)
    /\ mainPc' = "init"
    /\ UNCHANGED <<progVars, ringVars, pinVars, ghostVars, ip, callStack, result>>

InitResultIgnored ==
    /\ mainPc = "init" /\ ip > Len(Ops)
    /\ mainPc' = "settle"
    /\ UNCHANGED <<progVars, ringVars, pinVars, ghostVars, ip, callStack, result, now>>

\* st7701.init(&mut delay).unwrap()
InitUnwrap ==
    /\ mainPc = "init" /\ ip > Len(Ops)
    /\ mainPc' = IF result = "ok" THEN "settle" ELSE "panic"
    /\ UNCHANGED <<progVars, ringVars, pinVars, ghostVars, ip, callStack, result, now>>

\* delay.delay_millis(50)
Settle ==
    /\ mainPc = "settle"
    /\ now' = now + Ms(50)
    /\ mainPc' = "dpi_new"
    /\ UNCHANGED <<progVars, ringVars, pinVars, ghostVars, ip, callStack, result>>

\* Dpi::new(lcd_cam.lcd, channel, config).unwrap()
DpiNew ==
    /\ mainPc = "dpi_new"
    /\ \E ok \in BOOLEAN : mainPc' = IF ok THEN "buf_new" ELSE "panic"
    /\ UNCHANGED <<progVars, ringVars, pinVars, ghostVars, ip, callStack, result, now>>

\* DmaTxStreamBuf::new(DESCRIPTORS.take(), BUFFER.take()).unwrap()
BufNew ==
    /\ mainPc = "buf_new"
    /\ \E ok \in BOOLEAN : mainPc' = IF ok THEN "prefill" ELSE "panic"
    /\ UNCHANGED <<progVars, ringVars, pinVars, ghostVars, ip, callStack, result, now>>

\* const fn rgb: the three fields do not overlap, so | is +
rgb(r, g, b) == (r * 2048 + g * 32 + b) % 65536
MAX_RED == 2^5 - 1
RED == rgb(MAX_RED, 0, 0)

\* u16::to_be_bytes, u16::to_le_bytes
to_be_bytes(x) == <<x \div 256, x % 256>>
to_le_bytes(x) == <<x % 256, x \div 256>>

\* buffer after `for chunk in buffer.chunks_mut(2) { chunk.copy_from_slice(&color.to_le_bytes()) }`
Chunk == [i \in 1..ChunkLen |-> to_le_bytes(COLOR)[((i - 1) % PixelLen) + 1]]

PrefillExitsEarly ==
    /\ mainPc = "prefill"
    /\ Push(to_be_bytes(RED))
    /\ mainPc' = IF Accepted(PixelLen) <= PixelLen THEN "send" ELSE "prefill"
    /\ UNCHANGED <<progVars, pinVars, ghostVars, ip, callStack, result, now>>

\* loop { if dma_buf.push(&RED.to_be_bytes()) < 2 { break; } }
Prefill ==
    /\ mainPc = "prefill"
    /\ Push(to_be_bytes(RED))
    /\ mainPc' = IF Accepted(PixelLen) < PixelLen THEN "send" ELSE "prefill"
    /\ UNCHANGED <<progVars, pinVars, ghostVars, ip, callStack, result, now>>

\* dpi.send(true, dma_buf).map_err(|e| e.0).unwrap()
Send ==
    /\ mainPc = "send"
    /\ \E ok \in BOOLEAN : mainPc' = IF ok THEN "stream" ELSE "panic"
    /\ UNCHANGED <<progVars, ringVars, pinVars, ghostVars, ip, callStack, result, now>>

\* loop { transfer.push(&buffer, false); }
StreamPush ==
    /\ mainPc = "stream"
    /\ Push(Chunk)
    /\ UNCHANGED <<progVars, pinVars, ghostVars, mainPc, ip, callStack, result, now>>

\* the DMA engine consumes the byte at the read cursor
DmaConsume ==
    /\ mainPc = "stream"
    /\ Consume
    /\ UNCHANGED <<progVars, pinVars, ghostVars, mainPc, ip, callStack, result, now>>

----------------------------------------------------------------------------
(* Specifications *)

GhostInit ==
    /\ edges = <<>> /\ trace = <<>> /\ csRisesSinceOp = 0 /\ rstLog = <<>>
    /\ lastWrite = [fn |-> "none", arg |-> 0, t |-> 0]
    /\ nWrites = 0 /\ bytesDone = 0
    /\ injected = [k |-> 0, e |-> "none", t |-> 0]
    /\ txns = <<>> /\ lastSclEdge = -1

RingInit ==
    /\ wr = 0 /\ rd = 0 /\ used = 0 /\ fresh = {} /\ overwrote = FALSE
    /\ lastPush = [n |-> 0, k |-> 0, free |-> Capacity, data |-> <<>>, pos |-> 0,
                   at |-> 0, wraps |-> 0]
    /\ wraps = 0 /\ accPos = 0

\* main.rs: the pins as constructed, either transport handed to St7701::new
Init ==
    /\ mode = "main"
    /\ transport \in Transports
    /\ calls = <<>> /\ wrapped = FALSE
    /\ mainPc = "boot" /\ ip = 1 /\ callStack = <<>> /\ result = "none"
    /\ rst = 1 /\ cs = 0 /\ scl = 0
    /\ sda \in {0, 1} /\ sdaOut = TRUE
    /\ now = 0
    /\ GhostInit /\ RingInit

Next ==
    \/ Exec
    \/ Boot \/ InitUnwrap \/ Settle \/ DpiNew \/ BufNew \/ Prefill \/ Send
    \/ StreamPush \/ DmaConsume

Spec == Init /\ [][Next]_vars

(* Transport call scenarios: a transport of either kind is constructed and a
   closure makes one or two write calls on it, inside one while_cs or not *)

InitCalls ==
    /\ mode = "test"
    /\ \/ /\ calls \in ByteScenarios
          /\ transport \in Transports /\ wrapped = FALSE /\ cs = 1
       \/ /\ calls \in SmallScenarios
          /\ transport \in Transports /\ wrapped \in BOOLEAN /\ cs \in {0, 1}
    /\ mainPc = "test" /\ ip = 1 /\ callStack = <<>> /\ result = "none"
    /\ rst = 1 /\ scl \in {0, 1}
    /\ sda = 0 /\ sdaOut = FALSE
    /\ now = 0
    /\ GhostInit /\ RingInit

NextCalls == Exec

\* main keeps running: the pre-fill loop is software on the single control
\* flow, which executes its next iteration whenever it has one
SpecLive == Spec /\ WF_vars(Prefill)

SpecCalls == InitCalls /\ [][NextCalls]_vars

(* Ring-buffer scenarios: pushes of every size up to more than the capacity,
   interleaved with consumption by the DMA engine *)

InitRing ==
    /\ mode = "ring" /\ transport = "manual"
    /\ calls = <<>> /\ wrapped = FALSE
    /\ mainPc = "ring" /\ ip = 1 /\ callStack = <<>> /\ result = "none"
    /\ rst = 1 /\ cs = 1 /\ scl = 0 /\ sda = 0 /\ sdaOut = FALSE
    /\ now = 0
    /\ GhostInit /\ RingInit

\* push(bytes) with n bytes offered
RingPush ==
    /\ mainPc = "ring"
    /\ \E n \in 0..(Capacity + MaxOver) : Push([i \in 1..n |-> 0])
    /\ UNCHANGED <<progVars, pinVars, ghostVars, mainPc, ip, callStack, result, now>>

RingDrain ==
    /\ mainPc = "ring"
    /\ Consume
    /\ UNCHANGED <<progVars, pinVars, ghostVars, mainPc, ip, callStack, result, now>>

NextRing == RingPush \/ RingDrain

SpecRing == InitRing /\ [][NextRing]_vars

----------------------------------------------------------------------------
(* Claims *)

InitWrites == Writes(InitSteps)

\* the write call in progress, as a statement
CurrentWrite ==
    LET i == CHOOSE j \in DOMAIN callStack : callStack[j].fn \in WriteFns
    IN  <<callStack[i].fn, callStack[i].arg>>

\* C1: init issues its writes in the order of the command table; when the
\* write at position k returns an error, init returns exactly that error, no
\* write after position k is issued and no time passes in a later delay.
C1_InitAbortsAtFirstError ==
    mode = "main" =>
        /\ nWrites <= Len(InitWrites)
        /\ InWrite => CurrentWrite = InitWrites[nWrites]
        /\ injected.e # "none" =>
            /\ result = injected.e
            /\ nWrites = injected.k
            /\ now = injected.t
            /\ ~Running

\* the 3rd write has failed and main has panicked on the error
C1_Witness ==
    /\ mode = "main" /\ mainPc = "panic"
    /\ injected.k = 3 /\ injected.e = "DmaError" /\ result = "DmaError"

\* the bits of a byte, most significant first
RECURSIVE Pow2(_)
Pow2(n) == IF n = 0 THEN 1 ELSE 2 * Pow2(n - 1)
BitsMsbFirst(byte) == [i \in 1..8 |-> (byte \div Pow2(8 - i)) % 2]

AtReturnOf(fn) == Running /\ Cur.op = "ret" /\ Cur.a = fn

\* C2: ManualSpi::write_byte produces exactly 9 rising clock edges, and the
\* data line sampled at them reads the control bit (0 command, 1 data) and
\* then the byte's bits b7..b0.
C2_WriteByteFrame ==
    /\ transport = "manual" /\ InFn("write_byte") => Len(edges) <= 9
    /\ transport = "manual" /\ AtReturnOf("write_byte") =>
        edges = <<IF Top.arg[1] THEN 0 ELSE 1>> \o BitsMsbFirst(Top.arg[2])

\* the data byte 0b1010_1010 has been clocked out
C2_Witness ==
    /\ transport = "manual" /\ AtReturnOf("write_byte")
    /\ Top.arg = <<FALSE, \HAA>>
    /\ edges = <<1, 1, 0, 1, 0, 1, 0, 1, 0>>

\* C3: under every interleaving of pushes and DMA consumption, the unconsumed
\* bytes never exceed the capacity and no unconsumed byte is overwritten.
C3_NoLap ==
    /\ used <= Capacity
    /\ Cardinality(fresh) = used
    /\ ~overwrote

\* a steady-state push was clipped by the space the DMA engine had freed
C3_Witness ==
    /\ mainPc = "stream"
    /\ lastPush.n = ChunkLen /\ lastPush.k > 0 /\ lastPush.k < lastPush.n
    /\ used = Capacity /\ wr # 0

\* reset has run to its end
ResetDone == Len(rstLog) = 3 /\ ~InFn("reset")

\* the state of the system's state machine
Phase ==
    CASE mainPc = "boot" -> "RESET"
      [] mainPc = "init" /\ ip <= Len(Ops) ->
            IF ResetDone THEN "CONFIGURING" ELSE "RESET"
      [] mainPc = "init" /\ ip > Len(Ops) ->
            IF result = "ok" THEN "READY" ELSE "FAILED"
      [] mainPc \in {"settle", "dpi_new", "buf_new", "prefill", "send"} -> "READY"
      [] mainPc = "stream" -> "STREAMING"
      [] OTHER -> "FAILED"

PhaseOrder ==
    {<<"RESET", "CONFIGURING">>, <<"CONFIGURING", "READY">>,
     <<"READY", "STREAMING">>, <<"CONFIGURING", "FAILED">>, <<"READY", "FAILED">>}

DisplayOnIssued ==
    /\ nWrites = Len(InitWrites)
    /\ lastWrite.fn = "write_command" /\ lastWrite.arg = \H29

\* C4: the phases are passed in the order RESET, CONFIGURING, READY,
\* STREAMING; streaming starts only after init returned Ok with every command
\* up to display-on issued; a failed init never reaches STREAMING; the
\* streaming loop is never left.
C4_PhaseOrder ==
    [][/\ Phase' # Phase => <<Phase, Phase'>> \in PhaseOrder
       /\ Phase' \in {"READY", "STREAMING"} =>
            result' = "ok" /\ injected'.e = "none" /\ DisplayOnIssued'
       /\ Phase = "STREAMING" => Phase' = "STREAMING"]_vars

\* the steady-state loop has been entered and has pushed a chunk
C4_Witness ==
    /\ Phase = "STREAMING" /\ result = "ok"
    /\ lastPush.n = ChunkLen /\ used < Capacity

\* C5: reset drives the reset line High, Low, High, holds each level at
\* least 100 ms before the next transition and before returning; init runs
\* the whole reset before its first transport write.
C5_ResetPulse ==
    /\ \A i \in DOMAIN rstLog : rstLog[i][1] = <<1, 0, 1>>[i]
    /\ \A i \in 2..Len(rstLog) : rstLog[i][2] - rstLog[i - 1][2] >= Ms(100)
    /\ InFn("reset") /\ Len(rstLog) > 0 /\ Cur.op # "delay" =>
            now - rstLog[Len(rstLog)][2] >= Ms(100)
    /\ mode = "main" /\ (nWrites > 0 \/ Phase \notin {"RESET", "FAILED"}) =>
            /\ ResetDone
            /\ now - rstLog[3][2] >= Ms(100)

\* the first transport write is being issued after the reset
C5_Witness ==
    /\ mode = "main" /\ Running /\ Cur.op = "call" /\ Cur.a = "write_command"
    /\ nWrites = 0 /\ Len(rstLog) = 3 /\ rst = 1

\* C6: in a successful init at least 100 ms pass between sleep-out (0x11)
\* and the next write, which is display-on (0x29), and at least 50 ms between
\* display-on and init returning Ok; no write is issued in either delay.
C6_SettleDelays ==
    mode = "main" =>
        /\ ( /\ lastWrite.fn = "write_command" /\ lastWrite.arg = \H11
             /\ \/ InWrite
                \/ Running /\ Cur.op = "call" /\ Cur.a \in WriteFns )
           => /\ nWrites >= Len(InitWrites) - 1
              /\ InWrite => CurrentWrite = <<"write_command", \H29>>
              /\ now - lastWrite.t >= Ms(100)
        /\ result = "ok" =>
              /\ DisplayOnIssued
              /\ now - lastWrite.t >= Ms(50)
        /\ Phase = "STREAMING" => result = "ok"

\* init has returned Ok on the bit-banged transport
C6_Witness ==
    /\ mode = "main" /\ transport = "manual" /\ mainPc = "init"
    /\ result = "ok" /\ DisplayOnIssued /\ now - lastWrite.t = Ms(50)

\* a parameter byte of a write_data call is being clocked out
ClockingParameter == InFn("write_data") /\ InFn("write_byte")

\* C7 as stated: on the bit-banged transport chip-select does not go high
\* between the opcode of a command and its last parameter byte.
C7_OneAssertionPerCommand ==
    mode = "main" /\ transport = "manual" /\ ClockingParameter =>
        csRisesSinceOp = 0

\* C7 as amended: the opcode (write_command) and the parameter bytes
\* (write_data) are each transmitted under one continuous chip-select
\* assertion of their own: chip-select is low while every byte is clocked,
\* goes high exactly once between the opcode and the first parameter byte,
\* and does not go high between the parameter bytes.
C7_OneAssertionPerCall ==
    mode = "main" /\ transport = "manual" /\ InFn("write_byte") =>
        /\ cs = 0
        /\ csRisesSinceOp = IF InFn("write_data") THEN 1 ELSE 0

\* the third parameter byte of a command is being clocked out
C7_Witness ==
    /\ mode = "main" /\ transport = "manual" /\ ClockingParameter
    /\ Len(SelectSeq(trace, LAMBDA e : e[1] = "byte")) = 2
    /\ cs = 0 /\ csRisesSinceOp = 1

\* C8: in main with the bit-banged transport chip-select is low only while
\* a write_command or write_data call is in progress, and is high whenever
\* such a call has returned.
C8_CsOnlyDuringWrite ==
    mode = "main" /\ transport = "manual" =>
        /\ cs = 0 => InWrite
        /\ nWrites > 0 /\ ~InWrite => cs = 1

\* the events of one write call on the bit-banged transport
ByteEvents(fn, arg) ==
    IF fn = "write_command" THEN <<<<"byte", Frame(TRUE, arg)>>>>
    ELSE [i \in 1..Len(arg) |-> <<"byte", Frame(FALSE, arg[i])>>]

\* C9: one write_command or write_data call on the bit-banged transport
\* sets chip-select low once, waits 1 ms, clocks out all its bytes in order,
\* waits 1 ms and sets chip-select high once; two calls made one after the
\* other without an enclosing while_cs are two assertions, chip-select being
\* high between them.
C9_OneAssertionPerCall ==
    transport = "manual" =>
        /\ \A fn \in WriteFns : AtReturnOf(fn) =>
            /\ trace = <<<<"cs", 0>>, <<"delay", Ms(1)>>>>
                       \o ByteEvents(Top.fn, Top.arg)
                       \o <<<<"delay", Ms(1)>>, <<"cs", 1>>>>
            /\ cs = 1
        /\ InFn("write_byte") => cs = 0
        /\ ( /\ ~wrapped /\ nWrites >= 1
             /\ Running /\ Cur.op = "call" /\ Cur.a \in WriteFns ) => cs = 1

\* write_command(0x11) then write_data([0xAA]), not wrapped: the second call
\* is about to return
C9_Witness ==
    /\ mode = "test" /\ transport = "manual" /\ ~wrapped
    /\ calls = <<C(\H11), D(<<\HAA>>)>>
    /\ AtReturnOf("write_data") /\ nWrites = 2
    /\ trace = <<<<"cs", 0>>, <<"delay", Ms(1)>>, <<"byte", 256 + \HAA>>,
                 <<"delay", Ms(1)>>, <<"cs", 1>>>>

\* from the first bit of the first byte to the last bit of the last byte of
\* the closure's calls
InSpan(nBytes) ==
    /\ bytesDone >= 1 \/ InFn("write_byte")
    /\ bytesDone < nBytes

\* C10: write_command(0x11) and write_data([0xAA]) made inside one enclosing
\* while_cs on the bit-banged transport keep chip-select low over the whole
\* two-call span.
C10_WrappedSpanAsserted ==
    ( /\ mode = "test" /\ transport = "manual" /\ wrapped
      /\ calls = <<C(\H11), D(<<\HAA>>)>>
      /\ InSpan(2) ) => cs = 0

\* C11: push is always possible and accepts min(N, free) of the N bytes
\* offered: on an empty buffer N when N <= capacity and the capacity when
\* N > capacity, and 0 on a full buffer.
C11_PushAcceptsMinOfferedFree ==
    mode = "ring" =>
        /\ ENABLED RingPush
        /\ lastPush.k = IF lastPush.n <= lastPush.free THEN lastPush.n ELSE lastPush.free
        /\ lastPush.free = Capacity /\ lastPush.n <= Capacity => lastPush.k = lastPush.n
        /\ lastPush.free = Capacity /\ lastPush.n > Capacity => lastPush.k = Capacity
        /\ lastPush.free = 0 => lastPush.k = 0

\* more than the capacity has been pushed into the drained buffer
C11_Witness ==
    /\ mode = "ring" /\ wraps >= 1
    /\ lastPush.n = Capacity + 1 /\ lastPush.free = Capacity
    /\ lastPush.k = Capacity /\ used = Capacity

\* C12: the pre-fill loop ends, and when it has ended the ring buffer is
\* full, so the transfer that dpi.send starts finds a full buffer.
C12_PrefillFillsBuffer ==
    /\ [](mainPc = "send" => used = Capacity /\ Free = 0)
    /\ [][mainPc # "stream" /\ mainPc' = "stream" => used' = Capacity]_vars
    /\ (mainPc = "prefill" ~> mainPc = "send")

\* the transfer has just been started on the buffer the pre-fill loop left
C12_Witness ==
    /\ mainPc = "stream" /\ used = Capacity /\ rd = 0
    /\ lastPush.data = to_be_bytes(RED) /\ lastPush.k < PixelLen

\* C13: in steady-state streaming, after a push that accepted k bytes of the
\* n offered, k < n, the next push offers the rest of those bytes, from
\* offset k on.
C13_RemainderResubmitted ==
    [][( /\ mainPc = "stream" /\ mainPc' = "stream" /\ rd' = rd
         /\ lastPush.data = Chunk /\ lastPush.k < lastPush.n )
       => lastPush'.data = SubSeq(lastPush.data, lastPush.k + 1, lastPush.n)]_vars

\* C20: the bytes accepted by the ring buffer, pre-fill and steady state
\* together, repeat one 2-byte pixel: the byte accepted at position p of the
\* stream is byte p mod 2 of the first pixel accepted, RED.to_be_bytes().
C20_UniformPixelStream ==
    mode = "main" =>
        \A i \in 1..lastPush.k :
            lastPush.data[i] = to_be_bytes(RED)[((lastPush.pos + i - 1) % PixelLen) + 1]

\* C14: once the write cursor has wrapped past the capacity at least twice,
\* the cursor used for the next write is in [0, capacity), and a push of at
\* least capacity bytes into the fully drained buffer accepts exactly
\* capacity bytes, written from a cursor in [0, capacity).
C14_CursorInRangeAfterWraps ==
    mode = "ring" =>
        /\ wraps >= 2 => wr \in 0..(Capacity - 1)
        /\ ( /\ lastPush.wraps >= 2
             /\ lastPush.free = Capacity
             /\ lastPush.n >= Capacity )
           => /\ lastPush.at \in 0..(Capacity - 1)
              /\ lastPush.k = Capacity
              /\ used = Capacity => fresh = 0..(Capacity - 1)

C14_Witness ==
    /\ mode = "ring"
    /\ lastPush.wraps >= 2 /\ lastPush.at > 0
    /\ lastPush.free = Capacity /\ lastPush.n > Capacity
    /\ lastPush.k = Capacity /\ used = Capacity /\ wr = lastPush.at

\* the next operation writes the given pin
Writing(pin) == Running /\ Cur.op = "pin" /\ Cur.a = pin

\* C17: during ManualSpi::write_byte the data line changes level only while
\* the clock is low: every write of the data pin (the control bit and each
\* payload bit) directly follows a write of the clock to low and is directly
\* followed by the write that raises it, finds the clock low, and no step
\* changes the data level with the clock high before or after it.
C17_DataChangesWhileClockLow ==
    /\ [](Writing("sda") =>
            /\ transport = "manual" /\ InFn("write_byte")
            /\ scl = 0
            /\ Ops[ip - 1] = Pin("scl", 0)
            /\ Ops[ip + 1] = Pin("scl", 1))
    /\ [][sda' # sda => scl = 0 /\ scl' = 0 /\ Writing("sda")]_vars

\* a payload bit that changes the data level is about to be written in a byte
\* that follows another byte
C17_Witness ==
    /\ mode = "test" /\ transport = "manual"
    /\ bytesDone >= 1 /\ Len(edges) >= 1
    /\ Writing("sda") /\ Cur.b # sda /\ scl = 0

\* C18: within ManualSpi::write_byte every transition of the clock line comes
\* at least the inter-bit delay after the previous transition of the clock in
\* that call, for falling-then-rising as for rising-then-falling.
C18_ClockTransitionsSeparated ==
    ( /\ Writing("scl") /\ Cur.b # scl
      /\ InFn("write_byte") /\ lastSclEdge >= 0 )
    => now - lastSclEdge >= INTER_BIT_NS

\* the (is_command, byte) pairs a write call hands to the transport, in order
PairsOf(st) ==
    IF st[1] = "write_command" THEN << <<TRUE, st[2]>> >>
    ELSE [i \in 1..Len(st[2]) |-> <<FALSE, st[2][i]>>]

RECURSIVE ExpectedPairs(_)
ExpectedPairs(cl) ==
    IF cl = <<>> THEN <<>>
    ELSE PairsOf(Head(cl)) \o ExpectedPairs(Tail(cl))

\* C15: on the hardware-backed transport write_data issues one bus
\* transaction per byte, in order; when the transaction of byte i reports a
\* fault the call returns that error at once, byte i is not sent again and
\* the bytes after it are never sent.
C15_HwWriteDataAbortsOnFault ==
    (mode = "test" /\ transport = "hw") =>
        LET expected == ExpectedPairs(calls) IN
        /\ Len(txns) <= Len(expected)
        /\ \A i \in DOMAIN txns :
              txns[i] = ser(expected[i][1], expected[i][2])
        /\ result = "ok" => Len(txns) = Len(expected)
        /\ injected.k > 0 =>
              /\ ~Running /\ callStack = <<>>
              /\ result = injected.e /\ result \in Errors
              /\ injected.t = now
        /\ result \in Errors => injected.k > 0 /\ Len(txns) >= 1

\* the transaction of the first of two data bytes faults: the second is not sent
C15_Witness ==
    /\ mode = "test" /\ transport = "hw"
    /\ calls = <<D(<<\H11, \HAA>>)>>
    /\ result = "DmaError"
    /\ txns = <<ser(FALSE, \H11)>>
    /\ ~Running

ControlBit(word) == (word \div (2^15)) % 2

\* C16: for every byte value, the word ser produces has control bit 0 when
\* the byte is a command opcode and control bit 1 when it is a data byte.
C16_SerControlBit ==
    (mode = "test" /\ transport = "hw") =>
        \A i \in DOMAIN txns :
            ControlBit(txns[i]) = IF ExpectedPairs(calls)[i][1] THEN 0 ELSE 1

\* the opcode with every payload bit set still carries control bit 0
C16_Witness ==
    /\ mode = "test" /\ transport = "hw"
    /\ calls = <<C(\HFF)>>
    /\ Len(txns) = 1 /\ ControlBit(txns[1]) = 0

\* the pair a 16-bit word carries: bit 15 is the control bit (0 = command),
\* bits 14..7 the byte
Decode(word) == <<word \div (2^15) = 0, (word \div (2^7)) % (2^8)>>

\* C19: for every (is_command, byte) pair ser produces a 16-bit word whose
\* bit 15 is the control bit, whose bits 14..7 are the payload byte, most
\* significant bit first, and whose bits 6..0 are zero; the pair is
\* recovered from the word.
C19_SerLayout ==
    (mode = "test" /\ transport = "hw") =>
        \A i \in DOMAIN txns :
            LET word == txns[i]
                pair == ExpectedPairs(calls)[i]
            IN
            /\ word \in 0..(2^16 - 1)
            /\ word % (2^7) = 0
            /\ \A b \in 1..8 :
                  (word \div (2^(15 - b))) % 2 = BitsMsbFirst(pair[2])[b]
            /\ ControlBit(word) = IF pair[1] THEN 0 ELSE 1
            /\ Decode(word) = pair

\* a data byte with only its least significant bit set lands in bit 7
C19_Witness ==
    /\ mode = "test" /\ transport = "hw"
    /\ calls = <<D(<<\H01>>)>>
    /\ txns = <<2^15 + 2^7>>

====
